---- MODULE Spec2Model ----
(***************************************************************************)
(* Model of the degree-saturation pipeline: src/src/data_loader.py         *)
(* (load_data, get_master_dataframe), src/src/model.py                     *)
(* (predict_future_supply, get_alternatives, calculate_market_saturation), *)
(* src/src/utils.py (get_cip_family) and the loader of src/app.py          *)
(* (load_app_data).                                                        *)
(*                                                                         *)
(* Strings the code takes apart (CIP codes, SOC codes, file names) are     *)
(* tuples of one-character strings; column headers and titles, which the   *)
(* code only compares, are plain strings.  A raw numeric cell is a record  *)
(* [ok, v]: ok is FALSE when pd.to_numeric cannot parse the cell.  A       *)
(* float that may be NaN is a record [nan, num, den] (num/den a fraction   *)
(* in lowest terms).                                                       *)
(***************************************************************************)
EXTENDS Integers, Sequences, FiniteSets, TLC

\* ---------------------------------------------------------------- bounds
MaxRows == 2        \* raw rows per completion file
MaxCrosswalk == 2   \* rows of the crosswalk sheet
MaxProjections == 2 \* rows of the projection table
MaxFiles == 2       \* completion files the glob finds

\* ------------------------------------------------------- generic helpers
Max2(a, b) == IF a >= b THEN a ELSE b

SeqOf(S, n) == UNION {[1..k -> S] : k \in 0..n}

ToSet(s) == {s[i] : i \in DOMAIN s}

RECURSIVE Flatten(_)
Flatten(ss) == IF ss = <<>> THEN <<>> ELSE Head(ss) \o Flatten(Tail(ss))

RECURSIVE SumSeq(_)
SumSeq(s) == IF s = <<>> THEN 0 ELSE Head(s) + SumSeq(Tail(s))

RECURSIVE Gcd(_, _)
Gcd(a, b) == IF b = 0 THEN a ELSE Gcd(b, a % b)

\* ------------------------------------------------------ string helpers
Digits == {"0", "1", "2", "3", "4", "5", "6", "7", "8", "9"}

DigitVal == [d \in Digits |->
               CASE d = "0" -> 0 [] d = "1" -> 1 [] d = "2" -> 2 [] d = "3" -> 3
                 [] d = "4" -> 4 [] d = "5" -> 5 [] d = "6" -> 6 [] d = "7" -> 7
                 [] d = "8" -> 8 [] d = "9" -> 9]

\* code point order of the characters that occur in keys
Ord(c) == CASE c = " " -> 0 [] c = "-" -> 1 [] c = "." -> 2
            [] c \in Digits -> 3 + DigitVal[c]
            [] c = "S" -> 20 [] c = "_" -> 21 [] c = "a" -> 22 [] c = "c" -> 23
            [] c = "s" -> 24 [] c = "v" -> 25 [] c = "x" -> 26
            [] OTHER -> 30

RECURSIVE StrLess(_, _)
StrLess(a, b) ==
    IF b = <<>> THEN FALSE
    ELSE IF a = <<>> THEN TRUE
    ELSE IF Head(a) = Head(b) THEN StrLess(Tail(a), Tail(b))
    ELSE Ord(Head(a)) < Ord(Head(b))

\* str.strip(): drop leading and trailing blanks
RECURSIVE LStrip(_)
LStrip(s) == IF s # <<>> /\ Head(s) = " " THEN LStrip(Tail(s)) ELSE s

RECURSIVE RStrip(_)
RStrip(s) == IF s # <<>> /\ s[Len(s)] = " " THEN RStrip(SubSeq(s, 1, Len(s) - 1)) ELSE s

Strip(s) == RStrip(LStrip(s))

StartsWith(s, p) == Len(s) >= Len(p) /\ SubSeq(s, 1, Len(p)) = p

EndsWith(s, p) == Len(s) >= Len(p) /\ SubSeq(s, Len(s) - Len(p) + 1, Len(s)) = p

\* str.split('.')[0]: the part before the first dot (the whole string if none)
RECURSIVE SplitDotFirst(_)
SplitDotFirst(s) ==
    IF s = <<>> \/ Head(s) = "." THEN <<>>
    ELSE <<Head(s)>> \o SplitDotFirst(Tail(s))

\* the keys of a sequence of rows, ascending (groupby sorts its keys)
RECURSIVE SortedKeys(_)
SortedKeys(K) ==
    IF K = {} THEN <<>>
    ELSE LET m == CHOOSE k \in K : \A o \in K \ {k} : StrLess(k, o)
         IN  <<m>> \o SortedKeys(K \ {m})

\* ------------------------------------------------------ numeric cells
Cell(n) == [ok |-> TRUE, v |-> n]
BadCell == [ok |-> FALSE, v |-> 0]

\* pd.to_numeric(errors='coerce').fillna(0)
ToNumericFill0(c) == IF c.ok THEN c.v ELSE 0

\* ------------------------------------------------------------ input data
\* CIP codes: family, dot, tail
CipA == <<"1", "1", ".", "1">>
CipB == <<"1", "3", ".", "1">>
CipAPadded == <<"1", "1", ".", "1", " ">>

SocS1 == <<"S", "1">>
SocS2 == <<"S", "2">>
SocS1Padded == <<" ", "S", "1">>

NoTitle == "<NaN>"   \* an empty title cell

\* names in the data directory
FileC2023 == <<"c", "2", "0", "2", "3", "_", "a", ".", "c", "s", "v">>
FileC2024 == <<"c", "2", "0", "2", "4", "_", "a", ".", "c", "s", "v">>
FileC20xx == <<"c", "2", "0", "x", "x", "_", "a", ".", "c", "s", "v">>
FileOther == <<"x", ".", "c", "s", "v">>

DataDirNames == {FileC2023, FileC2024, FileC20xx, FileOther}

\* raw rows of a completion file (AWLEVEL, CIPCODE, CTOTALT)
CompletionRows ==
    { [AWLEVEL |-> "5", CIPCODE |-> CipAPadded, CTOTALT |-> Cell(3)],
      [AWLEVEL |-> "7", CIPCODE |-> CipB,       CTOTALT |-> Cell(4)],
      [AWLEVEL |-> "3", CIPCODE |-> CipA,       CTOTALT |-> BadCell] }

CompletionCols == {"AWLEVEL", "CIPCODE", "CTOTALT"}

\* what pd.read_csv can meet: an unreadable file, or a table with its headers
UnreadableFile == [readable |-> FALSE, cols |-> {}, rows |-> <<>>]

OneRow == <<[AWLEVEL |-> "5", CIPCODE |-> CipA, CTOTALT |-> Cell(3)]>>

\* a file without AWLEVEL keeps the rows of every award level
RowsOfAnyLevel ==
    <<[AWLEVEL |-> "5", CIPCODE |-> CipA, CTOTALT |-> Cell(3)],
      [AWLEVEL |-> "3", CIPCODE |-> CipA, CTOTALT |-> BadCell]>>

FileContents ==
    {UnreadableFile}
    \cup {[readable |-> TRUE, cols |-> CompletionCols, rows |-> r] :
            r \in SeqOf(CompletionRows, MaxRows)}
    \cup {[readable |-> TRUE, cols |-> CompletionCols \ {"AWLEVEL"}, rows |-> RowsOfAnyLevel]}
    \cup {[readable |-> TRUE, cols |-> c, rows |-> OneRow] :
            c \in {CompletionCols \ {"CIPCODE"}, CompletionCols \ {"CTOTALT"}}}

\* the crosswalk sheet
CrosswalkHeaders == {"CIP2020Code", "CIP2020Title", "SOC2018Code", "SOC2018Title"}

CrosswalkRows ==
    { [CIP2020Code |-> CipA,       CIP2020Title |-> "Computer Science", SOC2018Code |-> SocS1],
      [CIP2020Code |-> CipAPadded, CIP2020Title |-> "Comp. Sci.",       SOC2018Code |-> SocS2],
      [CIP2020Code |-> CipB,       CIP2020Title |-> "Education",        SOC2018Code |-> SocS1Padded],
      [CIP2020Code |-> CipB,       CIP2020Title |-> NoTitle,            SOC2018Code |-> SocS2] }

BaseCrosswalk ==
    [headers |-> CrosswalkHeaders,
     rows |-> << [CIP2020Code |-> CipA, CIP2020Title |-> "Computer Science", SOC2018Code |-> SocS1],
                 [CIP2020Code |-> CipB, CIP2020Title |-> "Education",        SOC2018Code |-> SocS2] >>]

CrosswalkSheets ==
    {[headers |-> CrosswalkHeaders, rows |-> r] : r \in SeqOf(CrosswalkRows, MaxCrosswalk)}
    \cup {[headers |-> CrosswalkHeaders \ {"CIP2020Code"}, rows |-> BaseCrosswalk.rows]}

\* the projection table: header spellings of two vintages, and one unknown one
Headers2024 == {"2024 National Employment Matrix code", "Employment, 2024", "Employment, 2034",
                "Occupational openings, 2024-34 annual average"}
Headers2023 == {"2023 National Employment Matrix code", "Employment, 2023", "Employment, 2033",
                "Occupational openings, 2023-33 annual average"}
HeadersNoOpenings == Headers2024 \ {"Occupational openings, 2024-34 annual average"}
HeadersNewVintage == HeadersNoOpenings \cup {"Occupational openings, 2025-35 annual average"}

ProjectionRows ==
    { [soc |-> SocS1,       cur |-> Cell(1), proj |-> Cell(3), open |-> Cell(2)],
      [soc |-> SocS1Padded, cur |-> Cell(2), proj |-> Cell(1), open |-> Cell(5)],
      [soc |-> SocS2,       cur |-> BadCell, proj |-> Cell(1), open |-> Cell(0)] }

BaseProjections ==
    [headers |-> Headers2024,
     rows |-> << [soc |-> SocS1, cur |-> Cell(1), proj |-> Cell(3), open |-> Cell(2)],
                 [soc |-> SocS2, cur |-> Cell(2), proj |-> Cell(1), open |-> Cell(5)] >>]

ProjectionSheets ==
    {[headers |-> Headers2024, rows |-> r] : r \in SeqOf(ProjectionRows, MaxProjections)}
    \cup {[headers |-> h, rows |-> BaseProjections.rows] :
            h \in {Headers2023, HeadersNoOpenings, HeadersNewVintage}}

\* the smaller choice of completion files read next to a varied crosswalk
\* or projection table
FewFileContents ==
    {[readable |-> TRUE, cols |-> CompletionCols, rows |-> r] :
        r \in {<<>>, OneRow,
               OneRow \o <<[AWLEVEL |-> "7", CIPCODE |-> CipB, CTOTALT |-> Cell(4)]>>,
               <<[AWLEVEL |-> "5", CIPCODE |-> CipB, CTOTALT |-> BadCell]>>}}

\* ------------------------------------------------------------- variables
VARIABLES
    pc,             \* where the run of load_app_data stands
    error,          \* the exception that reached the caller ("none" if none)
    crosswalk,      \* load_data: the normalized crosswalk
    projections,    \* load_data: the normalized projection table
    all_files,      \* load_data: the completion files to read, in glob order
    file_idx,       \* load_data: files of all_files already visited
    df,             \* load_data: the table read from the file visited last
    supply_frames,  \* load_data: one aggregate per file read
    warnings,       \* load_data: the files skipped, with the error printed
    supply_history, \* the Supply History
    cip_demand,     \* get_master_dataframe: one DemandRecord per field
    merged_demand,  \* get_master_dataframe: the joined occupation rows
    master_df,      \* the MasterRecords: [cols, rows]
    result          \* what the last call of a query function returned

vars == <<pc, error, crosswalk, projections, all_files, file_idx, df, supply_frames,
          warnings, supply_history, cip_demand, merged_demand, master_df, result>>

loadVars == <<crosswalk, projections, all_files, file_idx, df, supply_frames, warnings>>
mergeVars == <<cip_demand, merged_demand, master_df>>
queryVars == <<result>>

NoTable == [cols |-> {}, rows |-> <<>>]   \* pd.DataFrame()
NoFile == [readable |-> FALSE, cols |-> {}, rows |-> <<>>]
NoResult == [fn |-> "none"]

Init ==
    /\ pc = "start"
    /\ error = "none"
    /\ crosswalk = NoTable
    /\ projections = NoTable
    /\ all_files = <<>>
    /\ file_idx = 0
    /\ df = NoFile
    /\ supply_frames = <<>>
    /\ warnings = <<>>
    /\ supply_history = <<>>
    /\ cip_demand = <<>>
    /\ merged_demand = NoTable
    /\ master_df = NoTable
    /\ result = NoResult

\* ------------------------------------------------------------- load_data
CrosswalkAlias(h) ==
    CASE h = "CIP2020Code" -> "CIP_Code"
      [] h = "CIP2020Title" -> "CIP_Title"
      [] h = "SOC2018Code" -> "SOC_Code"
      [] h = "SOC2018Title" -> "SOC_Title"
      [] OTHER -> h

\* <U+2013> stands for the en dash of the third spelling of the openings header
ProjectionAlias(h) ==
    CASE h \in {"2023 National Employment Matrix code",
                "2024 National Employment Matrix code"} -> "SOC_Code"
      [] h \in {"Employment, 2023", "Employment, 2024"} -> "Current_Employment"
      [] h \in {"Employment, 2033", "Employment, 2034"} -> "Projected_Employment"
      [] h \in {"Occupational openings, 2023-33 annual average",
                "Occupational openings, 2024-34 annual average",
                "Occupational openings, 2024<U+2013>34 annual average"} -> "Annual_Openings"
      [] OTHER -> h

\* rename, then strip the two key columns
NormalizeCrosswalk(sheet) ==
    [cols |-> {CrosswalkAlias(h) : h \in sheet.headers},
     rows |-> [i \in DOMAIN sheet.rows |->
                 [CIP_Code  |-> Strip(sheet.rows[i].CIP2020Code),
                  CIP_Title |-> sheet.rows[i].CIP2020Title,
                  SOC_Code  |-> Strip(sheet.rows[i].SOC2018Code)]]]

\* rename, strip SOC_Code, make the numeric columns that are present numeric
NormalizeProjections(sheet) ==
    LET cols == {ProjectionAlias(h) : h \in sheet.headers}
        Num(col, c) == IF col \in cols THEN ToNumericFill0(c) ELSE 0
    IN  [cols |-> cols,
         rows |-> [i \in DOMAIN sheet.rows |->
                     [SOC_Code             |-> Strip(sheet.rows[i].soc),
                      Current_Employment   |-> Num("Current_Employment", sheet.rows[i].cur),
                      Projected_Employment |-> Num("Projected_Employment", sheet.rows[i].proj),
                      Annual_Openings      |-> Num("Annual_Openings", sheet.rows[i].open)]]]

\* glob.glob("data/c20*_a.csv")
GlobMatch(name) ==
    /\ StartsWith(name, <<"c", "2", "0">>)
    /\ EndsWith(name, <<"_", "a", ".", "c", "s", "v">>)
    /\ Len(name) >= 9

Orderings(S) == {s \in [1..Cardinality(S) -> S] : \A i, j \in DOMAIN s : i # j => s[i] # s[j]}

DefaultYear == 2024

\* re.search(r'c(\d{4})_a', basename, re.IGNORECASE)
YearMatchAt(name, i) ==
    /\ i + 6 <= Len(name)
    /\ name[i] \in {"c", "C"}
    /\ \A k \in 1..4 : name[i + k] \in Digits
    /\ name[i + 5] = "_"
    /\ name[i + 6] \in {"a", "A"}

ParseYear(name) ==
    IF \E i \in DOMAIN name : YearMatchAt(name, i)
    THEN LET i == CHOOSE j \in DOMAIN name :
                    /\ YearMatchAt(name, j)
                    /\ \A k \in DOMAIN name : YearMatchAt(name, k) => j <= k
         IN  1000 * DigitVal[name[i + 1]] + 100 * DigitVal[name[i + 2]]
               + 10 * DigitVal[name[i + 3]] + DigitVal[name[i + 4]]
    ELSE DefaultYear

\* the error the body of the try block raises on a file, "none" if none
FileError(content) ==
    IF ~content.readable THEN "read error"
    ELSE IF "CIPCODE" \notin content.cols THEN "KeyError: 'CIP_Code'"
    ELSE IF "CTOTALT" \notin content.cols THEN "KeyError: 'Graduates'"
    ELSE "none"

\* the AWLEVEL filter, where the column exists
KeptRows(content) ==
    IF "AWLEVEL" \in content.cols
    THEN SelectSeq(content.rows, LAMBDA r : r.AWLEVEL \in {"5", "7"})
    ELSE content.rows

\* df.groupby(["CIP_Code", "Year"])['Graduates'].sum().reset_index()
AggregateFile(content, year) ==
    LET rows == KeptRows(content)
        keys == SortedKeys({Strip(rows[i].CIPCODE) : i \in DOMAIN rows})
        Of(k) == SelectSeq(rows, LAMBDA r : Strip(r.CIPCODE) = k)
        Grads(k) == SumSeq([i \in DOMAIN Of(k) |-> ToNumericFill0(Of(k)[i].CTOTALT)])
    IN  [i \in DOMAIN keys |->
            [CIP_Code |-> keys[i], Year |-> year, Graduates |-> Grads(keys[i])]]

IsBaseReference(xw, pj) == xw = BaseCrosswalk /\ pj = BaseProjections

\* the inputs of one run: a varied data directory beside the base reference
\* tables, or varied reference tables beside one completion file
Directories(xw, pj) ==
    IF IsBaseReference(xw, pj)
    THEN {d \in SUBSET DataDirNames : Cardinality({n \in d : GlobMatch(n)}) <= MaxFiles}
    ELSE {{FileC2024, FileOther}}

Fail(e) ==
    /\ pc' = "failed"
    /\ error' = e

\* lines 10-22: the crosswalk lacks a key column
LoadDataCrosswalkError ==
    /\ pc = "start"
    /\ \E xw \in CrosswalkSheets :
          LET cw == NormalizeCrosswalk(xw)
          IN  /\ ~({"CIP_Code", "SOC_Code"} \subseteq cw.cols)
              /\ Fail("KeyError")
    /\ UNCHANGED <<loadVars, supply_history, mergeVars, queryVars>>

\* lines 53-63: no completion file at all
LoadDataNoFiles ==
    /\ pc = "start"
    /\ \E d \in Directories(BaseCrosswalk, BaseProjections) :
          /\ {n \in d : GlobMatch(n)} = {}
          /\ FileC2024 \notin d      \* os.path.exists(fallback)
          /\ Fail("FileNotFoundError")
    /\ crosswalk' = NormalizeCrosswalk(BaseCrosswalk)
    /\ projections' = NormalizeProjections(BaseProjections)
    /\ UNCHANGED <<all_files, file_idx, df, supply_frames, warnings,
                   supply_history, mergeVars, queryVars>>

\* lines 10-63: reference tables read and normalized, files found
LoadDataBegin ==
    /\ pc = "start"
    /\ \E xw \in CrosswalkSheets \cup {BaseCrosswalk},
          pj \in ProjectionSheets \cup {BaseProjections} :
          /\ {"CIP_Code", "SOC_Code"} \subseteq NormalizeCrosswalk(xw).cols
          /\ crosswalk' = NormalizeCrosswalk(xw)
          /\ projections' = NormalizeProjections(pj)
          /\ \E d \in Directories(xw, pj) :
                LET found == {n \in d : GlobMatch(n)}
                IN  /\ found # {} \/ FileC2024 \in d
                    /\ all_files' \in (IF found # {} THEN Orderings(found)
                                       ELSE {<<FileC2024>>})
    /\ pc' = "files"
    /\ file_idx' = 0
    /\ UNCHANGED <<error, df, supply_frames, warnings, supply_history, mergeVars, queryVars>>

ContentsToRead ==
    IF /\ crosswalk = NormalizeCrosswalk(BaseCrosswalk)
       /\ projections = NormalizeProjections(BaseProjections)
    THEN FileContents
    ELSE FewFileContents

\* lines 65-90: one pass of the loop, the file is aggregated
LoadFileOk ==
    /\ pc = "files"
    /\ file_idx < Len(all_files)
    /\ \E content \in ContentsToRead :
          /\ FileError(content) = "none"
          /\ df' = content
          /\ supply_frames' = Append(supply_frames,
                                     AggregateFile(content, ParseYear(all_files[file_idx + 1])))
    /\ file_idx' = file_idx + 1
    /\ UNCHANGED <<pc, error, crosswalk, projections, all_files, warnings,
                   supply_history, mergeVars, queryVars>>

\* mutant: no try/except, the error of one file ends the load
LoadFileSkipAborts ==
    /\ pc = "files"
    /\ file_idx < Len(all_files)
    /\ \E content \in ContentsToRead :
          /\ FileError(content) # "none"
          /\ df' = content
    /\ Fail("Exception")
    /\ UNCHANGED <<crosswalk, projections, all_files, file_idx, supply_frames, warnings,
                   supply_history, mergeVars, queryVars>>

\* lines 65-93: one pass of the loop, the except branch
LoadFileSkip ==
    /\ pc = "files"
    /\ file_idx < Len(all_files)
    /\ \E content \in ContentsToRead :
          /\ FileError(content) # "none"
          /\ df' = content
          /\ warnings' = Append(warnings, [file |-> all_files[file_idx + 1],
                                           error |-> FileError(content)])
    /\ file_idx' = file_idx + 1
    /\ UNCHANGED <<pc, error, crosswalk, projections, all_files, supply_frames,
                   supply_history, mergeVars, queryVars>>

\* lines 95-101: concat and return
LoadDataReturn ==
    /\ pc = "files"
    /\ file_idx = Len(all_files)
    /\ supply_history' = Flatten(supply_frames)
    /\ df' = NoFile
    /\ pc' = "loaded"
    /\ UNCHANGED <<error, crosswalk, projections, all_files, file_idx, supply_frames,
                   warnings, mergeVars, queryVars>>

\* ---------------------------------------------------------------- floats
\* a float that is a ratio of two integers, in lowest terms; exact for the
\* small values of the model (the thresholds 1.5 and 0.8 are told apart from
\* every ratio of small integers by far more than a rounding error)
NaN == [nan |-> TRUE, num |-> 0, den |-> 1]

Abs(n) == IF n < 0 THEN -n ELSE n

Frac(n, d) ==
    LET g == Gcd(Abs(n), d)
    IN  [nan |-> FALSE, num |-> n \div g, den |-> d \div g]

IsNa(a) == a.nan

\* comparisons with NaN are False
FracLess(a, b) == ~a.nan /\ ~b.nan /\ a.num * b.den < b.num * a.den

FracIsZero(a) == ~a.nan /\ a.num = 0

\* --------------------------------------------------- get_cip_family (utils)
CIP_FAMILY_MAP(f) ==
    CASE f = <<"0", "1">> -> "Agriculture & Veterinary Sciences"
      [] f = <<"0", "3">> -> "Natural Resources & Conservation"
      [] f = <<"0", "4">> -> "Architecture & Related Services"
      [] f = <<"0", "5">> -> "Area, Ethnic, Cultural, Gender Studies"
      [] f = <<"0", "9">> -> "Communication & Journalism"
      [] f = <<"1", "0">> -> "Communications Technologies"
      [] f = <<"1", "1">> -> "Computer & Information Sciences"
      [] f = <<"1", "2">> -> "Personal & Culinary Services"
      [] f = <<"1", "3">> -> "Education"
      [] f = <<"1", "4">> -> "Engineering"
      [] f = <<"1", "5">> -> "Engineering Technologies"
      [] f = <<"1", "6">> -> "Foreign Languages & Literatures"
      [] f = <<"1", "9">> -> "Family & Consumer Sciences"
      [] f = <<"2", "2">> -> "Legal Professions & Studies"
      [] f = <<"2", "3">> -> "English Language & Literature"
      [] f = <<"2", "4">> -> "Liberal Arts & Sciences"
      [] f = <<"2", "5">> -> "Library Science"
      [] f = <<"2", "6">> -> "Biological & Biomedical Sciences"
      [] f = <<"2", "7">> -> "Mathematics & Statistics"
      [] f = <<"2", "9">> -> "Military Technologies"
      [] f = <<"3", "0">> -> "Multi/Interdisciplinary Studies"
      [] f = <<"3", "1">> -> "Parks, Recreation, Leisure, Fitness"
      [] f = <<"3", "8">> -> "Philosophy & Religious Studies"
      [] f = <<"3", "9">> -> "Theology & Religious Vocations"
      [] f = <<"4", "0">> -> "Physical Sciences"
      [] f = <<"4", "1">> -> "Science Technologies"
      [] f = <<"4", "2">> -> "Psychology"
      [] f = <<"4", "3">> -> "Homeland Security, Law Enforcement"
      [] f = <<"4", "4">> -> "Public Administration & Social Service"
      [] f = <<"4", "5">> -> "Social Sciences"
      [] f = <<"4", "6">> -> "Construction Trades"
      [] f = <<"4", "7">> -> "Mechanic & Repair Technologies"
      [] f = <<"4", "8">> -> "Precision Production"
      [] f = <<"4", "9">> -> "Transportation & Materials Moving"
      [] f = <<"5", "0">> -> "Visual & Performing Arts"
      [] f = <<"5", "1">> -> "Health Professions"
      [] f = <<"5", "2">> -> "Business, Management, Marketing"
      [] f = <<"5", "4">> -> "History"
      [] OTHER -> "Other/Specialized Fields"

\* a lookup without the test for a missing or too short code
get_cip_family_Unguarded(cip_code) ==
    LET family_code == SplitDotFirst(cip_code)
    IN  CIP_FAMILY_MAP(IF Len(family_code) < 2 THEN <<"0">> \o family_code
                       ELSE family_code)

\* a missing code (None) is the empty tuple here: both are falsy
get_cip_family(cip_code) ==
    IF cip_code = <<>> \/ Len(cip_code) < 2
    THEN "Unknown CIP Family"
    ELSE LET family_code == SplitDotFirst(cip_code)
         IN  CIP_FAMILY_MAP(IF Len(family_code) < 2 THEN <<"0">> \o family_code
                            ELSE family_code)

\* --------------------------------------------------- get_master_dataframe
ColsToSum == {"Current_Employment", "Projected_Employment", "Annual_Openings"}

\* pd.merge(crosswalk, projections, on="SOC_Code", how="left"): every crosswalk
\* row, in order, once per matching projection row, or once with NaN numbers
Present(n) == [nan |-> FALSE, v |-> n]
Missing == [nan |-> TRUE, v |-> 0]

JoinedRow(c, cur, proj, open) ==
    [CIP_Code |-> c.CIP_Code, CIP_Title |-> c.CIP_Title, SOC_Code |-> c.SOC_Code,
     Current_Employment |-> cur, Projected_Employment |-> proj, Annual_Openings |-> open]

\* mutant: how="inner", crosswalk rows without a projection are dropped
LeftJoinDropsUnmatched(cw, pj) ==
    Flatten([k \in DOMAIN cw |->
        LET c == cw[k]
            m == SelectSeq(pj, LAMBDA p : p.SOC_Code = c.SOC_Code)
        IN  [i \in DOMAIN m |->
                JoinedRow(c, Present(m[i].Current_Employment),
                             Present(m[i].Projected_Employment),
                             Present(m[i].Annual_Openings))]])

LeftJoin(cw, pj) ==
    Flatten([k \in DOMAIN cw |->
        LET c == cw[k]
            m == SelectSeq(pj, LAMBDA p : p.SOC_Code = c.SOC_Code)
        IN  IF m = <<>>
            THEN <<JoinedRow(c, Missing, Missing, Missing)>>
            ELSE [i \in DOMAIN m |->
                    JoinedRow(c, Present(m[i].Current_Employment),
                                 Present(m[i].Projected_Employment),
                                 Present(m[i].Annual_Openings))]])

\* merged_demand[cols_to_sum].fillna(0)
FillNa0(x) == IF x.nan THEN 0 ELSE x.v

FillDemand(rows) ==
    [i \in DOMAIN rows |->
        [rows[i] EXCEPT !.Current_Employment = FillNa0(@),
                        !.Projected_Employment = FillNa0(@),
                        !.Annual_Openings = FillNa0(@)]]

\* groupby "first": the first title of the group that is not null
FirstTitle(rows) ==
    LET t == SelectSeq(rows, LAMBDA r : r.CIP_Title # NoTitle)
    IN  IF t = <<>> THEN NoTitle ELSE t[1].CIP_Title

\* merged_demand.groupby("CIP_Code").agg(...).reset_index()
AggregateDemand(rows) ==
    LET keys == SortedKeys({rows[i].CIP_Code : i \in DOMAIN rows})
        Of(k) == SelectSeq(rows, LAMBDA r : r.CIP_Code = k)
    IN  [i \in DOMAIN keys |->
            LET g == Of(keys[i])
            IN  [CIP_Code |-> keys[i],
                 CIP_Title |-> FirstTitle(g),
                 Current_Employment |-> SumSeq([j \in DOMAIN g |-> g[j].Current_Employment]),
                 Projected_Employment |-> SumSeq([j \in DOMAIN g |-> g[j].Projected_Employment]),
                 Annual_Openings |-> SumSeq([j \in DOMAIN g |-> g[j].Annual_Openings]),
                 Mapped_Job_Count |-> Len(g)]]

\* mutant: the year of the rows loaded last
LatestYearOfLastFile(history) == history[Len(history)].Year

\* supply_history['Year'].max()
LatestYear(history) ==
    CHOOSE y \in {history[i].Year : i \in DOMAIN history} :
        \A i \in DOMAIN history : history[i].Year <= y

CurrentSupply(history) ==
    SelectSeq(history, LAMBDA r : r.Year = LatestYear(history))

\* mutant: zero openings give an index of 0
SaturationIndexZeroDefault(graduates, openings) ==
    IF openings > 0 THEN Frac(graduates, openings) ELSE Frac(0, 1)

\* np.where(Annual_Openings > 0, Graduates / Annual_Openings, np.nan)
SaturationIndex(graduates, openings) ==
    IF openings > 0 THEN Frac(graduates, openings) ELSE NaN

\* (Projected - Current) / (Current + 1.0)
JobGrowthRate(projected, current) == Frac(projected - current, current + 1)

MasterRow(d, s) ==
    [CIP_Code |-> d.CIP_Code, CIP_Title |-> d.CIP_Title,
     Current_Employment |-> d.Current_Employment,
     Projected_Employment |-> d.Projected_Employment,
     Annual_Openings |-> d.Annual_Openings,
     Mapped_Job_Count |-> d.Mapped_Job_Count,
     Year |-> s.Year, Graduates |-> s.Graduates,
     Job_Growth_Rate |-> JobGrowthRate(d.Projected_Employment, d.Current_Employment),
     Saturation_Index |-> SaturationIndex(s.Graduates, d.Annual_Openings),
     Saturation_Tag |-> "", CIP_Family |-> ""]

\* pd.merge(cip_demand, current_supply, on="CIP_Code", how="inner"), with the
\* two metric columns
\* mutant: how="left", a field without supply rows is kept
InnerJoinKeepsDemand(demand, supply) ==
    Flatten([k \in DOMAIN demand |->
        LET m == SelectSeq(supply, LAMBDA r : r.CIP_Code = demand[k].CIP_Code)
        IN  IF m = <<>>
            THEN <<MasterRow(demand[k], [Year |-> 0, Graduates |-> 0])>>
            ELSE [i \in DOMAIN m |-> MasterRow(demand[k], m[i])]])

InnerJoin(demand, supply) ==
    Flatten([k \in DOMAIN demand |->
        LET m == SelectSeq(supply, LAMBDA r : r.CIP_Code = demand[k].CIP_Code)
        IN  [i \in DOMAIN m |-> MasterRow(demand[k], m[i])]])

MasterCols == {"CIP_Code", "CIP_Title", "Current_Employment", "Projected_Employment",
               "Annual_Openings", "Mapped_Job_Count", "Year", "Graduates",
               "Job_Growth_Rate", "Saturation_Index"}

\* lines 110-112: no supply rows, three empty results
GetMasterEmpty ==
    /\ pc = "loaded"
    /\ supply_history = <<>>
    /\ master_df' = NoTable
    /\ merged_demand' = NoTable
    /\ pc' = "merged"
    /\ UNCHANGED <<error, loadVars, supply_history, cip_demand, queryVars>>

\* lines 116-120: the join or the column selection misses a column
GetMasterKeyError ==
    /\ pc = "loaded"
    /\ supply_history # <<>>
    /\ ~(({"SOC_Code"} \cup ColsToSum) \subseteq projections.cols)
    /\ Fail("KeyError")
    /\ UNCHANGED <<loadVars, supply_history, mergeVars, queryVars>>

\* lines 114-155
GetMasterMerge ==
    /\ pc = "loaded"
    /\ supply_history # <<>>
    /\ ({"SOC_Code"} \cup ColsToSum) \subseteq projections.cols
    /\ LET md == FillDemand(LeftJoin(crosswalk.rows, projections.rows))
           cd == AggregateDemand(md)
       IN  /\ merged_demand' = [cols |-> crosswalk.cols \cup projections.cols, rows |-> md]
           /\ cip_demand' = cd
           /\ master_df' = [cols |-> MasterCols,
                            rows |-> InnerJoin(cd, CurrentSupply(supply_history))]
    /\ pc' = "merged"
    /\ UNCHANGED <<error, loadVars, supply_history, queryVars>>

\* ------------------------------------- calculate_market_saturation (model)
HighThreshold == Frac(3, 2)   \* 1.5
LowThreshold == Frac(4, 5)    \* 0.8

\* np.select(conditions, choices, default): the first condition that holds
NpSelect(conditions, choices, default) ==
    IF \E i \in DOMAIN conditions : conditions[i]
    THEN choices[CHOOSE i \in DOMAIN conditions :
                    conditions[i] /\ \A j \in 1..(i - 1) : ~conditions[j]]
    ELSE default

\* mutant: the upper threshold is inclusive
SaturationTagInclusive(index) ==
    NpSelect(<<~IsNa(index) /\ ~FracLess(index, HighThreshold),
               FracLess(index, LowThreshold), IsNa(index)>>,
             <<"Highly Saturated", "Unsaturated", "Unknown">>,
             "Moderately Saturated")

SaturationTag(index) ==
    NpSelect(<<FracLess(HighThreshold, index), FracLess(index, LowThreshold), IsNa(index)>>,
             <<"Highly Saturated", "Unsaturated", "Unknown">>,
             "Moderately Saturated")

TagRows(rows) ==
    [i \in DOMAIN rows |->
        [rows[i] EXCEPT !.Saturation_Tag = SaturationTag(rows[i].Saturation_Index),
                        !.CIP_Family = get_cip_family(rows[i].CIP_Code)]]

TaggedCols == MasterCols \cup {"Saturation_Tag", "CIP_Family"}

\* app.py lines 39-42: the frame has no Saturation_Index column
LoadAppDataKeyError ==
    /\ pc = "merged"
    /\ "Saturation_Index" \notin master_df.cols
    /\ Fail("KeyError")
    /\ UNCHANGED <<loadVars, supply_history, mergeVars, queryVars>>

\* app.py lines 39-42: tag and family columns added
LoadAppData ==
    /\ pc = "merged"
    /\ "Saturation_Index" \in master_df.cols
    /\ master_df' = [cols |-> master_df.cols \cup {"Saturation_Tag", "CIP_Family"},
                     rows |-> TagRows(master_df.rows)]
    /\ pc' = "ready"
    /\ UNCHANGED <<error, loadVars, supply_history, cip_demand, merged_demand, queryVars>>

\* ------------------------------------------ predict_future_supply (model)
CurrentYear == 2024          \* default of current_year

ProjectionYears == {2, 4}    \* horizons asked for (the default is 4)

\* int(x) of a float n/d, d > 0: truncation toward zero
TruncDiv(n, d) == IF n >= 0 THEN n \div d ELSE -((-n) \div d)

\* the orders sort_values(col) may leave the rows in: ascending, rows with
\* equal keys in any order (the default quicksort is not stable); le[<<i, j>>]
\* tells whether row i may stand before row j
SortedOrders(rows, le) ==
    {[i \in DOMAIN rows |-> rows[p[i]]] :
        p \in {q \in [DOMAIN rows -> DOMAIN rows] :
                 /\ \A i, j \in DOMAIN rows : i # j => q[i] # q[j]
                 /\ \A i, j \in DOMAIN rows : i < j => le[<<q[i], q[j]>>]}}

\* LinearRegression().fit(X, y): slope and prediction at year t, exactly.
\* With a single distinct year the fit is the flat line through the mean.
OlsFit(data, t) ==
    LET n   == Len(data)
        Sx  == SumSeq([i \in DOMAIN data |-> data[i].Year])
        Sy  == SumSeq([i \in DOMAIN data |-> data[i].Graduates])
        Sxx == SumSeq([i \in DOMAIN data |-> data[i].Year * data[i].Year])
        Sxy == SumSeq([i \in DOMAIN data |-> data[i].Year * data[i].Graduates])
        D   == n * Sxx - Sx * Sx
        N   == n * Sxy - Sx * Sy
    IN  IF D = 0
        THEN [coef |-> Frac(0, 1), num |-> Sy, den |-> n]
        ELSE [coef |-> Frac(N, D), num |-> Sy * D + N * (n * t - Sx), den |-> n * D]

\* The fit and the prediction are float64 computations: the value that comes
\* out is the exact one or a neighbour a rounding step away. ulp = -1, 0, 1
\* says on which side of the exact value the float lies. Which one comes out
\* depends on the order of the floating-point operations of the solver, so
\* each is possible; only a fit on equal Graduates values (or on one distinct
\* year) is all zeros and exact.
Ulps == {-1, 0, 1}

Roundings(degree_data) ==
    IF \/ \A i, j \in DOMAIN degree_data : degree_data[i].Graduates = degree_data[j].Graduates
       \/ \A i, j \in DOMAIN degree_data : degree_data[i].Year = degree_data[j].Year
    THEN {<<0, 0>>}
    ELSE Ulps \X Ulps

\* int(x) of the float that lies ulp rounding steps off n/d: a float a step
\* below a positive whole number truncates to the number before it
IntOfFloat(n, d, ulp) ==
    IF n % d = 0 /\ ulp < 0 /\ n > 0 THEN (n \div d) - 1
    ELSE IF n % d = 0 /\ ulp > 0 /\ n < 0 THEN (n \div d) + 1
    ELSE TruncDiv(n, d)

\* the result of one call, or the exception it raises; rounding is the pair
\* of the rounding of coef_ and of the prediction
PredictResult(history, cip_code, projection_years, degree_data, rounding) ==
    IF Len(degree_data) < 2
    THEN IF degree_data # <<>>
         THEN \* .illoc is no attribute of a Series
              [fn |-> "predict_future_supply", cip |-> cip_code, years |-> projection_years,
               error |-> "AttributeError", predicted |-> 0, growth_rate |-> NaN,
               coef_ulp |-> 0, degree_data |-> <<>>]
         ELSE [fn |-> "predict_future_supply", cip |-> cip_code, years |-> projection_years,
               error |-> "none", predicted |-> 0, growth_rate |-> Frac(0, 1),
               coef_ulp |-> 0, degree_data |-> degree_data]
    ELSE LET fit == OlsFit(degree_data, CurrentYear + projection_years)
         IN  [fn |-> "predict_future_supply", cip |-> cip_code, years |-> projection_years,
              error |-> "none",
              predicted |-> Max2(0, IntOfFloat(fit.num, fit.den, rounding[2])),
              growth_rate |-> fit.coef,
              coef_ulp |-> rounding[1],
              degree_data |-> degree_data]

predict_future_supply(cip_code, projection_years) ==
    /\ pc = "ready"
    /\ LET rows == SelectSeq(supply_history, LAMBDA r : r.CIP_Code = cip_code)
           byYear == [p \in (DOMAIN rows) \X (DOMAIN rows) |-> rows[p[1]].Year <= rows[p[2]].Year]
       IN  result' \in {PredictResult(supply_history, cip_code, projection_years,
                                      degree_data, rounding) :
                           degree_data \in SortedOrders(rows, byYear),
                           rounding \in Roundings(rows)}
    /\ UNCHANGED <<pc, error, loadVars, supply_history, mergeVars>>

\* ------------------------------------------------ get_alternatives (model)
FirstIndexOf(rows, cip) ==
    CHOOSE i \in DOMAIN rows :
        rows[i].CIP_Code = cip /\ \A j \in 1..(i - 1) : rows[j].CIP_Code # cip

Head_n(rows, n) == SubSeq(rows, 1, IF n < Len(rows) THEN n ELSE Len(rows))

\* mutant: records with an index of exactly 0 are not filtered out
IsAlternativeKeepsZero(r, current_cip, current_saturation) ==
    /\ StartsWith(r.CIP_Code, SplitDotFirst(current_cip) \o <<".">>)
    /\ r.CIP_Code # current_cip
    /\ FracLess(r.Saturation_Index, current_saturation)
    /\ ~IsNa(r.Saturation_Index)

\* the filter of lines 46-52
IsAlternative(r, current_cip, current_saturation) ==
    /\ StartsWith(r.CIP_Code, SplitDotFirst(current_cip) \o <<".">>)
    /\ r.CIP_Code # current_cip
    /\ FracLess(r.Saturation_Index, current_saturation)
    /\ ~IsNa(r.Saturation_Index)
    /\ ~FracIsZero(r.Saturation_Index)

get_alternatives(current_cip, reccomendations) ==
    /\ pc = "ready"
    /\ IF \A i \in DOMAIN master_df.rows : master_df.rows[i].CIP_Code # current_cip
       THEN result' = [fn |-> "get_alternatives", cip |-> current_cip,
                             limit |-> reccomendations, rows |-> <<>>]
       ELSE LET current_saturation ==
                    master_df.rows[FirstIndexOf(master_df.rows, current_cip)].Saturation_Index
                found == SelectSeq(master_df.rows,
                                   LAMBDA r : IsAlternative(r, current_cip, current_saturation))
            IN  \E sorted \in SortedOrders(found,
                       [p \in (DOMAIN found) \X (DOMAIN found) |->
                           ~FracLess(found[p[2]].Saturation_Index,
                                     found[p[1]].Saturation_Index)]) :
                   result' = [fn |-> "get_alternatives", cip |-> current_cip,
                                    limit |-> reccomendations,
                                    rows |-> Head_n(sorted, reccomendations)]
    /\ UNCHANGED <<pc, error, loadVars, supply_history, mergeVars>>

\* ------------------------------------------------- the page script (app.py)
DefaultLimit == 3      \* default of reccomendations

\* app.py line 87: forecast for a degree picked from the master frame; result
\* holds what one call returned, so each call starts from the state without one
AppPredict ==
    /\ result = NoResult
    /\ \E i \in DOMAIN master_df.rows, y \in ProjectionYears :
          predict_future_supply(master_df.rows[i].CIP_Code, y)

\* app.py lines 196-201: alternatives for an oversaturated degree
AppAlternatives ==
    /\ result = NoResult
    /\ \E i \in DOMAIN master_df.rows :
          /\ FracLess(Frac(6, 5), master_df.rows[i].Saturation_Index)
          /\ get_alternatives(master_df.rows[i].CIP_Code, DefaultLimit)

Next ==
    \/ LoadDataCrosswalkError
    \/ LoadDataNoFiles
    \/ LoadDataBegin
    \/ LoadFileOk
    \/ LoadFileSkip
    \/ LoadDataReturn
    \/ GetMasterEmpty
    \/ GetMasterKeyError
    \/ GetMasterMerge
    \/ LoadAppDataKeyError
    \/ LoadAppData
    \/ AppPredict
    \/ AppAlternatives

Spec == Init /\ [][Next]_vars

\* ----------------------------------------------- the query functions alone
\* Inputs of predict_future_supply and get_alternatives drawn directly: a
\* Supply History as load_data builds it (one frame per file, in any file
\* order), MasterRecords as load_app_data leaves them (ascending CIP_Code).
MaxLimit == 2        \* largest number of recommendations asked for
HistoryYears == 3    \* years of completion files

GradValues == {1, 3, 5}

Cip112 == <<"1", "1", ".", "2">>
Cip113 == <<"1", "1", ".", "3">>
Cip114 == <<"1", "1", ".", "4">>
Cip1 == <<"1", ".", "1">>
CipAbsent == <<"1", "1", ".", "9">>

YearsLoaded == (CurrentYear - HistoryYears + 1)..CurrentYear

\* one frame per year: CipA with any value or absent, CipB only in the
\* latest year or absent
FrameOf(year, a, b) ==
    (IF a = 0 THEN <<>> ELSE <<[CIP_Code |-> CipA, Year |-> year, Graduates |-> a]>>)
    \o (IF b = 0 \/ year # CurrentYear THEN <<>>
        ELSE <<[CIP_Code |-> CipB, Year |-> year, Graduates |-> b]>>)

Histories ==
    {Flatten([i \in 1..HistoryYears |-> FrameOf(order[i], a[order[i]], b)]) :
        order \in Orderings(YearsLoaded),
        a \in [YearsLoaded -> GradValues \cup {0}],
        b \in {0, 4}}

BaseCipDemand ==
    AggregateDemand(FillDemand(LeftJoin(NormalizeCrosswalk(BaseCrosswalk).rows,
                                        NormalizeProjections(BaseProjections).rows)))

\* (Graduates, Annual_Openings) of a record: index NaN, 0, 1/2, 1, 2
IndexCases == {<<3, 0>>, <<0, 2>>, <<1, 2>>, <<2, 2>>, <<4, 2>>}

RecordOf(cip, go) ==
    MasterRow([CIP_Code |-> cip, CIP_Title |-> "title", Current_Employment |-> 1,
               Projected_Employment |-> 2, Annual_Openings |-> go[2],
               Mapped_Job_Count |-> 1],
              [CIP_Code |-> cip, Year |-> CurrentYear, Graduates |-> go[1]])

Absent == <<0, 0>>

Masters ==
    {TagRows(Flatten(<<
        IF c1 = Absent THEN <<>> ELSE <<RecordOf(Cip1, c1)>>,
        IF a = Absent THEN <<>> ELSE <<RecordOf(CipA, a)>>,
        IF b = Absent THEN <<>> ELSE <<RecordOf(Cip112, b)>>,
        IF c = Absent THEN <<>> ELSE <<RecordOf(Cip113, c)>>,
        IF d = Absent THEN <<>> ELSE <<RecordOf(Cip114, d)>> >>)) :
        c1 \in {Absent, <<1, 2>>},
        a \in IndexCases \cup {Absent}, b \in IndexCases \cup {Absent},
        c \in IndexCases \cup {Absent}, d \in IndexCases \cup {Absent}}

HistoryOf(rows) ==
    [i \in DOMAIN rows |->
        [CIP_Code |-> rows[i].CIP_Code, Year |-> rows[i].Year, Graduates |-> rows[i].Graduates]]

InitReady ==
    /\ pc = "ready"
    /\ error = "none"
    /\ crosswalk = NormalizeCrosswalk(BaseCrosswalk)
    /\ projections = NormalizeProjections(BaseProjections)
    /\ all_files = <<>>
    /\ file_idx = 0
    /\ df = NoFile
    /\ supply_frames = <<>>
    /\ warnings = <<>>
    /\ cip_demand = BaseCipDemand
    /\ merged_demand = NoTable
    /\ result = NoResult

InitModel ==
    /\ InitReady
    /\ \/ /\ supply_history \in Histories
          /\ master_df = [cols |-> TaggedCols,
                          rows |-> IF supply_history = <<>> THEN <<>>
                                   ELSE TagRows(InnerJoin(BaseCipDemand,
                                                          CurrentSupply(supply_history)))]
       \/ /\ master_df \in {[cols |-> TaggedCols, rows |-> m] : m \in Masters}
          /\ supply_history = HistoryOf(master_df.rows)

QueryCips == {Cip1, CipA, Cip112, Cip113, Cip114, CipB, CipAbsent}

\* one call on each drawn input
Predict ==
    /\ result = NoResult
    /\ \E c \in QueryCips, y \in ProjectionYears : predict_future_supply(c, y)

Recommend ==
    /\ result = NoResult
    /\ \E c \in QueryCips, n \in 0..MaxLimit : get_alternatives(c, n)

NextModel ==
    \/ Predict
    \/ Recommend

SpecModel == InitModel /\ [][NextModel]_vars

\* ================================================================= claims
Zero == [nan |-> FALSE, num |-> 0, den |-> 1]

PointsOf(cip) == SelectSeq(supply_history, LAMBDA r : r.CIP_Code = cip)

\* load_data has returned a Supply History to get_master_dataframe
LoadReturned == pc \notin {"start", "files"} /\ all_files # <<>> /\ file_idx = Len(all_files)

\* get_master_dataframe went through the merge
MergeDone == pc \in {"merged", "ready"} /\ "Saturation_Index" \in master_df.cols

CodesOf(rows) == {rows[i].CIP_Code : i \in DOMAIN rows}

LatestSupplyCodes ==
    {supply_history[i].CIP_Code : i \in
        {k \in DOMAIN supply_history :
            \A j \in DOMAIN supply_history : supply_history[j].Year <= supply_history[k].Year}}

\* C1: a forecast for a field with no or one history point returns without
\* raising, with slope 0 and the single known Graduates value (0 if none).
C1_SparseForecastIsFlat ==
    (result.fn = "predict_future_supply" /\ Len(PointsOf(result.cip)) < 2) =>
        /\ result.error = "none"
        /\ result.growth_rate = Zero
        /\ result.predicted = (IF PointsOf(result.cip) = <<>> THEN 0
                               ELSE PointsOf(result.cip)[1].Graduates)

\* C2: when the loaded Supply History has no rows, the run of load_app_data
\* ends with an empty MasterRecord set and without an error.
C2_EmptyHistoryEndsEmpty ==
    (LoadReturned /\ supply_history = <<>>) =>
        /\ error = "none"
        /\ master_df.rows = <<>>

\* C3: the FieldCodes of the MasterRecords are exactly the FieldCodes that
\* are both in the demand records and in the latest-year supply records.
C3_MasterIsIntersection ==
    MergeDone => CodesOf(master_df.rows) = CodesOf(cip_demand) \cap LatestSupplyCodes

\* C3 witness: tagged MasterRecords exist while a field with supply in the
\* latest year has no demand record and so was dropped.
C3_Witness ==
    /\ pc = "ready"
    /\ master_df.rows # <<>>
    /\ LatestSupplyCodes \ CodesOf(cip_demand) # {}

\* the Family of a FieldCode: what stands before its first dot
DotPos(c) ==
    IF \E i \in DOMAIN c : c[i] = "."
    THEN CHOOSE i \in DOMAIN c : c[i] = "." /\ \A j \in 1..(i - 1) : c[j] # "."
    ELSE Len(c) + 1

FamilyOf(c) == SubSeq(c, 1, DotPos(c) - 1)

IndexLe(a, b) == a.num * b.den <= b.num * a.den

\* the target's record: the first one with its FieldCode
TargetIndex(cip) ==
    master_df.rows[CHOOSE i \in DOMAIN master_df.rows :
                      /\ master_df.rows[i].CIP_Code = cip
                      /\ \A j \in 1..(i - 1) : master_df.rows[j].CIP_Code # cip].Saturation_Index

\* positions of the candidates of a target
Candidates(cip) ==
    {i \in DOMAIN master_df.rows :
        LET r == master_df.rows[i]
            t == TargetIndex(cip)
        IN  /\ FamilyOf(r.CIP_Code) = FamilyOf(cip)
            /\ r.CIP_Code # cip
            /\ ~r.Saturation_Index.nan
            /\ r.Saturation_Index.num # 0
            /\ ~t.nan
            /\ r.Saturation_Index.num * t.den < t.num * r.Saturation_Index.den}

\* C4: for a target present in the MasterRecords, get_alternatives returns
\* min(limit, number of candidates) distinct candidates, in ascending
\* SaturationIndex order, and no candidate left out is less saturated than a
\* returned one; a candidate has the target's Family, another FieldCode and a
\* defined, nonzero index strictly below the target's.
C4_RecommendLeastSaturated ==
    (result.fn = "get_alternatives" /\ result.cip \in CodesOf(master_df.rows)) =>
        LET C == Candidates(result.cip)
            R == result.rows
        IN  /\ Len(R) = (IF result.limit < Cardinality(C) THEN result.limit
                         ELSE Cardinality(C))
            /\ \A k \in DOMAIN R : \E i \in C : master_df.rows[i] = R[k]
            /\ \A k, l \in DOMAIN R : k < l =>
                  /\ R[k] # R[l]
                  /\ IndexLe(R[k].Saturation_Index, R[l].Saturation_Index)
            /\ \A i \in C : master_df.rows[i] \notin ToSet(R) =>
                  \A k \in DOMAIN R :
                      IndexLe(R[k].Saturation_Index, master_df.rows[i].Saturation_Index)

\* C4 witness: more candidates than the limit, the result cut to the limit,
\* beside a record of the Family whose index is exactly 0.
C4_Witness ==
    /\ result.fn = "get_alternatives"
    /\ result.cip \in CodesOf(master_df.rows)
    /\ result.limit >= 1
    /\ Cardinality(Candidates(result.cip)) > result.limit
    /\ Len(result.rows) = result.limit
    /\ \E i \in DOMAIN master_df.rows :
          /\ FamilyOf(master_df.rows[i].CIP_Code) = FamilyOf(result.cip)
          /\ master_df.rows[i].Saturation_Index = Zero

\* C5: a MasterRecord's SaturationIndex is undefined when AnnualOpenings is 0
\* and is Graduates / AnnualOpenings when AnnualOpenings > 0; the merge never
\* fails for a reason other than a missing projection column.
C5_IndexUndefinedAtZeroOpenings ==
    /\ MergeDone =>
          \A i \in DOMAIN master_df.rows :
              LET r == master_df.rows[i]
              IN  /\ r.Annual_Openings = 0 => r.Saturation_Index.nan
                  /\ r.Annual_Openings > 0 =>
                        /\ ~r.Saturation_Index.nan
                        /\ r.Saturation_Index.num * r.Annual_Openings
                             = r.Graduates * r.Saturation_Index.den
    /\ (LoadReturned /\ supply_history # <<>> /\ pc = "failed") =>
          ~(({"SOC_Code"} \cup ColsToSum) \subseteq projections.cols)

\* C5 witness: a MasterRecord with no openings and no graduates.
C5_Witness ==
    /\ MergeDone
    /\ \E i \in DOMAIN master_df.rows :
          /\ master_df.rows[i].Annual_Openings = 0
          /\ master_df.rows[i].Graduates = 0

\* first match wins: undefined, then above 1.5, then below 0.8
Classify(x) ==
    IF x.nan THEN "Unknown"
    ELSE IF 2 * x.num > 3 * x.den THEN "Highly Saturated"
    ELSE IF 5 * x.num < 4 * x.den THEN "Unsaturated"
    ELSE "Moderately Saturated"

\* C6: every MasterRecord's tag is the first-match classification of its
\* SaturationIndex; exactly 1.5 and exactly 0.8 are "Moderately Saturated".
C6_TagIsFirstMatch ==
    pc = "ready" =>
        \A i \in DOMAIN master_df.rows :
            master_df.rows[i].Saturation_Tag = Classify(master_df.rows[i].Saturation_Index)

\* C6 witness: tagged records with an index of exactly 1.5 and exactly 0.8.
C6_Witness ==
    /\ pc = "ready"
    /\ \E i, j \in DOMAIN master_df.rows :
          /\ master_df.rows[i].Saturation_Index = [nan |-> FALSE, num |-> 3, den |-> 2]
          /\ master_df.rows[j].Saturation_Index = [nan |-> FALSE, num |-> 4, den |-> 5]
          /\ master_df.rows[i].Saturation_Tag = "Moderately Saturated"
          /\ master_df.rows[j].Saturation_Tag = "Moderately Saturated"

\* C7: the Supply History load_data returns holds at most one row per
\* (FieldCode, Year) pair (the row that carries the sum of the raw rows).
C7_OneRowPerFieldYear ==
    LoadReturned =>
        \A i, j \in DOMAIN supply_history :
            i # j => <<supply_history[i].CIP_Code, supply_history[i].Year>>
                       # <<supply_history[j].CIP_Code, supply_history[j].Year>>

RECURSIVE SumOver(_, _)
SumOver(f, S) ==
    IF S = {} THEN 0
    ELSE LET x == CHOOSE y \in S : TRUE
         IN  f[x] + SumOver(f, S \ {x})

FileFailed(content) ==
    ~content.readable \/ ~({"CIPCODE", "CTOTALT"} \subseteq content.cols)

\* the rows of a file that count: bachelor's and master's when the level is given
Kept(content) ==
    {i \in DOMAIN content.rows :
        "AWLEVEL" \in content.cols => content.rows[i].AWLEVEL \in {"5", "7"}}

\* frame is the (FieldCode, Year) aggregate of a file read for a year
IsAggregateOf(frame, content, year) ==
    /\ \A k \in DOMAIN frame : frame[k].Year = year
    /\ CodesOf(frame) = {Strip(content.rows[i].CIPCODE) : i \in Kept(content)}
    /\ \A k, l \in DOMAIN frame : k < l => StrLess(frame[k].CIP_Code, frame[l].CIP_Code)
    /\ \A k \in DOMAIN frame :
          frame[k].Graduates =
              SumOver([i \in DOMAIN content.rows |->
                          IF content.rows[i].CTOTALT.ok THEN content.rows[i].CTOTALT.v ELSE 0],
                      {i \in Kept(content) : Strip(content.rows[i].CIPCODE) = frame[k].CIP_Code})

C8_Step ==
    /\ (pc = "files" /\ pc' # "loaded" /\ FileFailed(df')) =>
          /\ pc' = "files"
          /\ error' = "none"
          /\ file_idx' = file_idx + 1
          /\ supply_frames' = supply_frames
          /\ Len(warnings') = Len(warnings) + 1
          /\ warnings'[Len(warnings')].file = all_files[file_idx']
    /\ (pc = "files" /\ pc' # "loaded" /\ ~FileFailed(df')) =>
          /\ pc' = "files"
          /\ error' = "none"
          /\ file_idx' = file_idx + 1
          /\ warnings' = warnings
          /\ Len(supply_frames') = Len(supply_frames) + 1
          /\ SubSeq(supply_frames', 1, Len(supply_frames)) = supply_frames
          /\ IsAggregateOf(supply_frames'[Len(supply_frames')], df',
                           ParseYear(all_files[file_idx']))
    /\ (pc = "files" /\ pc' = "loaded") =>
          /\ file_idx = Len(all_files)
          /\ error' = "none"
          /\ supply_history' = Flatten(supply_frames)

\* C8: a completion file that cannot be read or lacks a column is skipped
\* with a warning and the load goes on: every other file appends exactly
\* its own aggregate, in the order of processing, the failed file appends
\* nothing, and the Supply History is the frames put end to end.
C8_FailedFileSkipped == [][C8_Step]_vars

\* C8 witness: of two files the first failed and the second still gave rows.
C8_Witness ==
    /\ pc = "loaded"
    /\ Len(all_files) = 2
    /\ Len(warnings) = 1
    /\ warnings[1].file = all_files[1]
    /\ supply_history # <<>>

\* C9: a completion file without a required column is never absorbed as a
\* skipped file: once such a file was read, an error has reached the caller.
C9_MissingColumnIsFatal ==
    /\ (pc = "files" /\ file_idx > 0 /\ df.readable
          /\ ~({"CIPCODE", "CTOTALT"} \subseteq df.cols)) => error # "none"
    /\ \A i \in DOMAIN warnings :
          warnings[i].error \notin {"KeyError: 'CIP_Code'", "KeyError: 'Graduates'"}

\* the occupation rows a crosswalk row joins to
Matches(i) ==
    {j \in DOMAIN projections.rows :
        projections.rows[j].SOC_Code = crosswalk.rows[i].SOC_Code}

RowsOfField(c) == {i \in DOMAIN crosswalk.rows : crosswalk.rows[i].CIP_Code = c}

FieldTotal(c, col) ==
    SumOver([i \in DOMAIN crosswalk.rows |->
                SumOver([j \in DOMAIN projections.rows |-> projections.rows[j][col]],
                        Matches(i))],
            RowsOfField(c))

FieldJoinedRows(c) ==
    SumOver([i \in DOMAIN crosswalk.rows |->
                IF Matches(i) = {} THEN 1 ELSE Cardinality(Matches(i))],
            RowsOfField(c))

FieldFirstTitle(c) ==
    LET T == {i \in RowsOfField(c) : crosswalk.rows[i].CIP_Title # NoTitle}
    IN  IF T = {} THEN NoTitle
        ELSE crosswalk.rows[CHOOSE i \in T : \A j \in T : i <= j].CIP_Title

\* C10: every FieldCode of the crosswalk has exactly one DemandRecord, also
\* without any projection row; its three employment figures are the sums
\* over its joined occupation rows (0 for a missing projection), its title the
\* first title met (empty title cells passed over), its MappedOccupationCount
\* the number of joined rows, zero-demand ones included.
C10_DemandKeepsEveryField ==
    MergeDone =>
        /\ CodesOf(cip_demand) = CodesOf(crosswalk.rows)
        /\ \A k, l \in DOMAIN cip_demand :
              k # l => cip_demand[k].CIP_Code # cip_demand[l].CIP_Code
        /\ \A k \in DOMAIN cip_demand :
              LET d == cip_demand[k]
              IN  /\ d.Current_Employment = FieldTotal(d.CIP_Code, "Current_Employment")
                  /\ d.Projected_Employment = FieldTotal(d.CIP_Code, "Projected_Employment")
                  /\ d.Annual_Openings = FieldTotal(d.CIP_Code, "Annual_Openings")
                  /\ d.CIP_Title = FieldFirstTitle(d.CIP_Code)
                  /\ d.Mapped_Job_Count = FieldJoinedRows(d.CIP_Code)

\* C10 witness: a field with two occupations, one with a projection row of
\* positive openings and one with none, and a second title after the first.
C10_Witness ==
    /\ MergeDone
    /\ \E k \in DOMAIN cip_demand :
          LET c == cip_demand[k].CIP_Code
          IN  /\ cip_demand[k].Mapped_Job_Count = 2
              /\ cip_demand[k].Annual_Openings > 0
              /\ \E i \in RowsOfField(c) : Matches(i) = {}
              /\ Cardinality({crosswalk.rows[i].CIP_Title : i \in RowsOfField(c)}
                               \ {NoTitle}) = 2

\* the whole slopes a history over GradValues and YearsLoaded can have
Slopes == -5..5

\* the points of a field lie on the line of slope m through its first point
OnLine(points, m) ==
    /\ \A i, j \in DOMAIN points : i # j => points[i].Year # points[j].Year
    /\ \A i \in DOMAIN points :
          points[i].Graduates - points[1].Graduates = m * (points[i].Year - points[1].Year)

\* C11: a forecast for a field whose history has at least 2 points lying
\* exactly on a line Graduates = a + m*Year with whole a and m returns the
\* slope m and max(0, a + m*(CurrentYear + horizon)) graduates.
C11_LinearForecastExact ==
    (result.fn = "predict_future_supply" /\ Len(PointsOf(result.cip)) >= 2) =>
        \A m \in Slopes :
            OnLine(PointsOf(result.cip), m) =>
                LET p == PointsOf(result.cip)[1]
                IN  /\ result.error = "none"
                    /\ result.growth_rate = [nan |-> FALSE, num |-> m, den |-> 1]
                    /\ result.coef_ulp = 0
                    /\ result.predicted =
                          Max2(0, p.Graduates + m * (CurrentYear + result.years - p.Year))

\* ------------------------------------------- get_cip_family on any code
MaxCode == 3   \* longest code looked up

CodeChars == {"0", "1", "3", "9", "."}

\* the codes looked up; <<>> stands for the empty string and for None, which
\* are both falsy and leave by the first test
LookupCodes == SeqOf(CodeChars, MaxCode)

\* app.py line 202 with any code: one call of get_cip_family
FamilyLookup ==
    /\ result = NoResult
    /\ \E c \in LookupCodes :
          result' = [fn |-> "get_cip_family", code |-> c, error |-> "none",
                     family |-> get_cip_family(c)]
    /\ UNCHANGED <<pc, error, loadVars, supply_history, mergeVars>>

InitLookup ==
    /\ InitReady
    /\ supply_history = <<>>
    /\ master_df = [cols |-> TaggedCols, rows |-> <<>>]

NextLookup == FamilyLookup

SpecLookup == InitLookup /\ [][NextLookup]_vars

\* the names the table holds for two-character keys over CodeChars
OtherFamily == "Other/Specialized Fields"
UnknownFamily == "Unknown CIP Family"

FamilyKeys == {k \in [1..2 -> CodeChars] : CIP_FAMILY_MAP(k) # OtherFamily}

\* C12: get_cip_family never raises; a code of length >= 2 gets the name
\* mapped to its Family or the fallback "Other/Specialized Fields" (the mapped
\* name when the part before the first dot is a key of the table); a missing
\* code or one of length < 2 gets "Unknown CIP Family".
C12_FamilyLookupTotal ==
    result.fn = "get_cip_family" =>
        /\ result.error = "none"
        /\ Len(result.code) >= 2 =>
              /\ result.family \in {CIP_FAMILY_MAP(k) : k \in FamilyKeys} \cup {OtherFamily}
              /\ FamilyOf(result.code) \in FamilyKeys =>
                    result.family = CIP_FAMILY_MAP(FamilyOf(result.code))
        /\ Len(result.code) < 2 => result.family = UnknownFamily

C12_Witness ==
    /\ result.fn = "get_cip_family"
    /\ Len(result.code) = MaxCode
    /\ result.family = "Computer & Information Sciences"

\* the most recent Year over all rows of the Supply History
NewestYear ==
    CHOOSE y \in {supply_history[i].Year : i \in DOMAIN supply_history} :
        \A i \in DOMAIN supply_history : supply_history[i].Year <= y

YearsOfField(c) ==
    {supply_history[i].Year : i \in {j \in DOMAIN supply_history :
                                         supply_history[j].CIP_Code = c}}

\* C13: the merge takes the most recent Year found in the loaded supply
\* rows: every MasterRecord carries that Year and the Graduates of a supply
\* row of its field for that Year, every supply row of that Year whose field
\* has demand data is carried by a MasterRecord, and a field with demand data
\* whose history has rows only for earlier years has no MasterRecord.
C13_MergeUsesNewestYear ==
    MergeDone =>
        /\ \A k \in DOMAIN master_df.rows :
              /\ master_df.rows[k].Year = NewestYear
              /\ \E i \in DOMAIN supply_history :
                    /\ supply_history[i].CIP_Code = master_df.rows[k].CIP_Code
                    /\ supply_history[i].Year = NewestYear
                    /\ supply_history[i].Graduates = master_df.rows[k].Graduates
        /\ \A i \in DOMAIN supply_history :
              (/\ supply_history[i].Year = NewestYear
               /\ supply_history[i].CIP_Code \in CodesOf(cip_demand)) =>
                  \E k \in DOMAIN master_df.rows :
                      /\ master_df.rows[k].CIP_Code = supply_history[i].CIP_Code
                      /\ master_df.rows[k].Graduates = supply_history[i].Graduates
        /\ \A c \in CodesOf(cip_demand) :
              (YearsOfField(c) # {} /\ NewestYear \notin YearsOfField(c)) =>
                  c \notin CodesOf(master_df.rows)

\* C13 witness: MasterRecords exist, a field with demand data has supply rows
\* only for an earlier year, and the rows loaded last are not the newest.
C13_Witness ==
    /\ pc = "ready"
    /\ master_df.rows # <<>>
    /\ supply_history[Len(supply_history)].Year < NewestYear
    /\ \E c \in CodesOf(cip_demand) :
          YearsOfField(c) # {} /\ NewestYear \notin YearsOfField(c)

====
